---- MODULE Spec2Model ----
(***************************************************************************)
(* Verification model of claude-token-provider.                            *)
(*                                                                         *)
(*   SpecMerge  the Tree Merger (config/merger.rs) as a pure function:     *)
(*              Init draws base and overlay Documents, the actions apply   *)
(*              deep_merge_json once and then a second time.               *)
(*   Spec       one run of the binary (main.rs): credentials, decrypt,     *)
(*              parse, apply_config_update (config/file_ops.rs), and the   *)
(*              self-deletion and return logic of main.                    *)
(*   SpecInput  the validators of a credential text (input.rs,             *)
(*              crypto/mod.rs) as pure functions of the text.              *)
(*   SpecCodec  encrypt_data and decrypt_data (crypto/mod.rs) as pure      *)
(*              functions: a plaintext is encrypted, one bit of the        *)
(*              ciphertext is changed or not, and it is decrypted.         *)
(*   SpecRace   two concurrent invocations of apply_config_update on one   *)
(*              config file.                                               *)
(*   SpecLive   Spec with weak fairness of the entry of a well-formed key  *)
(*              and of a well-formed nonce (input.rs).                     *)
(***************************************************************************)
EXTENDS Integers, Sequences, FiniteSets, TLC

VARIABLES
    \* ---- SpecMerge: one call of deep_merge_json(&mut existing, new)
    mpc,        \* "idle" | "start" | "merged" | "remerged"
    existing,   \* the &mut Value merged into (mutated in place)
    new,        \* the overlay Value
    base0,      \* history: existing before the first merge
    merged1,    \* history: existing after the first merge
    \* ---- Spec: one run of main()
    pc,             \* position of the run (see RunPositions)
    attempts,       \* rejected answers in the current prompt loop (at most MaxAttempts)
    file,           \* the config file ~/.claude/settings.json
    file0,          \* history: the config file when the run started
    dirExists,      \* whether the directory ~/.claude exists
    embedded,       \* crypto::constants::ENCRYPTED_CONFIG
    key,            \* the decoded [u8; KEY_SIZE], <<>> before it is read
    nonce,          \* the decoded [u8; NONCE_SIZE], <<>> before it is read
    plaintext,      \* decrypted_bytes
    config_json,    \* the parsed overlay Document
    existingCfg,    \* what read_existing_config returned
    err,            \* the Err(e) run_application returned, NoError otherwise
    outcome,        \* "running" | "Persisted" | "Failed"
    deletions,      \* number of calls of perform_self_deletion
    deletionResult, \* what the last call of perform_self_deletion returned
    result,         \* what main returned, Running before it returns
    \* ---- SpecInput: the validators of a credential text, each called once
    ipc,            \* "idle" | "start" | "formatted" | "keyDecoded" | "nonceDecoded"
    itext,          \* the credential text
    formatOk,       \* validate_base64_format(text).is_ok()
    keyResult,      \* what decode_and_validate_key(text) returned
    nonceResult,    \* what decode_and_validate_nonce(text) returned
    \* ---- SpecCodec: encrypt_data, then decrypt_data of the result
    cpc,            \* "idle" | "start" | "sealed" | "tampered" | "opened" | "tamperedOpened"
    cplain,         \* the data given to encrypt_data
    ckey,           \* the [u8; KEY_SIZE] given to both
    cnonce,         \* the [u8; NONCE_SIZE] given to both
    csealed,        \* the ciphertext: what encrypt_data returned, a bit changed or not
    copened,        \* what decrypt_data returned
    \* ---- SpecRace: two invocations of apply_config_update on one config file
    rpc,            \* per invocation: "load" | "save" | "done" | "failed"
    roverlay,       \* per invocation: the new_config it applies
    rloaded,        \* per invocation: what its read_existing_config returned
    rsavesAtLoad,   \* history, per invocation: the writes done before it loaded
    rfile,          \* the config file
    rfile0,         \* history: the config file before both invocations
    rfile1,         \* history: the config file after the first write
    rorder          \* history: the invocations in the order of their writes

mergeVars == <<mpc, existing, new, base0, merged1>>

runVars == <<pc, attempts, file, file0, dirExists, embedded, key, nonce, plaintext,
             config_json, existingCfg, err, outcome, deletions, deletionResult,
             result>>

inputVars == <<ipc, itext, formatOk, keyResult, nonceResult>>

codecVars == <<cpc, cplain, ckey, cnonce, csealed, copened>>

raceVars == <<rpc, roverlay, rloaded, rsavesAtLoad, rfile, rfile0, rfile1, rorder>>

(***************************************************************************)
(* Documents (serde_json::Value).  A Value is a tagged record:             *)
(*   [s |-> n]   a scalar                                                  *)
(*   [q |-> <<d1, ..., dn>>]   a sequence (Value::Array)                   *)
(*   [m |-> f]   a mapping (Value::Object), f a function from the keys     *)
(*               present to their Values                                   *)
(***************************************************************************)
MaxScalar == 2

Keys == {"a", "b"}

Scalars == {[s |-> n] : n \in 1..MaxScalar}

NoEntries == [k \in {} |-> [s |-> 1]]

EmptyMap == [m |-> NoEntries]

IsObject(v) == "m" \in DOMAIN v

IsArray(v) == "q" \in DOMAIN v

IsScalar(v) == "s" \in DOMAIN v

\* every mapping over a subset of Keys with values in V
Maps(V) == UNION {{[m |-> f] : f \in [K -> V]} : K \in SUBSET Keys}

\* the sequences of the model: empty, one element, two elements
SeqDocs == {[q |-> <<>>], [q |-> <<[s |-> 1]>>], [q |-> <<[s |-> 2], [s |-> 1]>>]}

Leaves == Scalars \cup SeqDocs

\* Documents nested one level and two levels deep
Docs1 == Leaves \cup Maps(Leaves)

Docs2 == Leaves \cup Maps(Leaves \cup Maps(Scalars))

(***************************************************************************)
(* config/merger.rs                                                        *)
(***************************************************************************)
RECURSIVE deep_merge_json(_, _)
RECURSIVE merge_objects(_, _, _)

\* Map::insert(key, value); name is the key
MapInsert(map, name, value) ==
    [k \in DOMAIN map \cup {name} |-> IF k = name THEN value ELSE map[k]]

\* mutant: a key absent from existing is skipped instead of inserted
MergeEntry_NoInsert(map, name, new_value) ==
    IF name \in DOMAIN map
    THEN [map EXCEPT ![name] = deep_merge_json(@, new_value)]
    ELSE map

\* mutant: the entry is written into a fresh map, losing the other keys
MergeEntry_Fresh(map, name, new_value) ==
    IF name \in DOMAIN map
    THEN [k \in {name} |-> deep_merge_json(map[name], new_value)]
    ELSE MapInsert(NoEntries, name, new_value)

\* the body of the for loop of merge_objects: match existing.get_mut(&key)
MergeEntry(map, name, new_value) ==
    IF name \in DOMAIN map
    THEN [map EXCEPT ![name] = deep_merge_json(@, new_value)]
    ELSE MapInsert(map, name, new_value)

\* for (key, new_value) in new { ... }: todo is the set of keys not yet visited
merge_objects(existing_map, new_map, todo) ==
    IF todo = {}
    THEN existing_map
    ELSE LET name == CHOOSE k \in todo : TRUE
         IN  merge_objects(MergeEntry(existing_map, name, new_map[name]),
                           new_map, todo \ {name})

\* mutant: two sequences are concatenated instead of replaced
deep_merge_json_Concat(existing_value, new_value) ==
    IF IsObject(existing_value) /\ IsObject(new_value)
    THEN [m |-> merge_objects(existing_value.m, new_value.m, DOMAIN new_value.m)]
    ELSE IF IsArray(existing_value) /\ IsArray(new_value)
         THEN [q |-> existing_value.q \o new_value.q]
         ELSE new_value

\* mutant: a mapping in the base is never replaced by a sequence or a scalar
deep_merge_json_KeepsMap(existing_value, new_value) ==
    IF IsObject(existing_value) /\ IsObject(new_value)
    THEN [m |-> merge_objects(existing_value.m, new_value.m, DOMAIN new_value.m)]
    ELSE IF IsObject(existing_value) THEN existing_value ELSE new_value

\* mutant: an empty overlay mapping never replaces, whatever the base is
deep_merge_json_EmptyKeeps(existing_value, new_value) ==
    IF IsObject(existing_value) /\ IsObject(new_value)
    THEN [m |-> merge_objects(existing_value.m, new_value.m, DOMAIN new_value.m)]
    ELSE IF new_value = EmptyMap THEN existing_value ELSE new_value

\* the value of *existing after deep_merge_json(existing, new)
deep_merge_json(existing_value, new_value) ==
    IF IsObject(existing_value) /\ IsObject(new_value)
    THEN [m |-> merge_objects(existing_value.m, new_value.m, DOMAIN new_value.m)]
    ELSE new_value

(***************************************************************************)
(* JSON text.  A text is a sequence of characters; "\n" stands for a line  *)
(* break with its indentation.  A number and a key are one character each. *)
(***************************************************************************)
RECURSIVE to_string_pretty(_)
RECURSIVE SerItems(_)
RECURSIVE SerEntries(_, _)
RECURSIVE ParseValue(_)
RECURSIVE ParseItems(_, _)
RECURSIVE ParseEntries(_, _)
RECURSIVE SkipWs(_)

Digit(n) == ToString(n)

\* the elements of a non-empty array, one per line
SerItems(q) ==
    <<"\n">> \o to_string_pretty(Head(q))
        \o (IF Len(q) = 1 THEN <<>> ELSE <<",">> \o SerItems(Tail(q)))

\* the entries of a non-empty object, one per line, in the map's iteration order
SerEntries(map, todo) ==
    LET k == CHOOSE x \in todo : TRUE
    IN  <<"\n", "\"", k, "\"", ":", " ">> \o to_string_pretty(map[k])
            \o (IF todo = {k} THEN <<>> ELSE <<",">> \o SerEntries(map, todo \ {k}))

\* serde_json::to_string_pretty(value)
to_string_pretty(v) ==
    IF IsScalar(v) THEN <<Digit(v.s)>>
    ELSE IF IsArray(v)
         THEN IF v.q = <<>> THEN <<"[", "]">>
              ELSE <<"[">> \o SerItems(v.q) \o <<"\n", "]">>
         ELSE IF DOMAIN v.m = {} THEN <<"{", "}">>
              ELSE <<"{">> \o SerEntries(v.m, DOMAIN v.m) \o <<"\n", "}">>

ParseFail == [ok |-> FALSE]

ParseOk(v, rest) == [ok |-> TRUE, v |-> v, rest |-> rest]

Numbers == 0..9

IsWs(c) == c \in {"\n", " "}

SkipWs(t) == IF t # <<>> /\ IsWs(Head(t)) THEN SkipWs(Tail(t)) ELSE t

\* after "[" and the elements in acc: the next element, then "," or "]"
ParseItems(t, acc) ==
    LET r == ParseValue(t)
    IN  IF ~r.ok THEN ParseFail
        ELSE LET u == SkipWs(r.rest)
             IN  IF u = <<>> THEN ParseFail
                 ELSE IF Head(u) = "," THEN ParseItems(Tail(u), Append(acc, r.v))
                 ELSE IF Head(u) = "]" THEN ParseOk([q |-> Append(acc, r.v)], Tail(u))
                 ELSE ParseFail

\* after "{" and the entries in acc: "key" : value, then "," or "}"
ParseEntries(t, acc) ==
    LET u == SkipWs(t)
    IN  IF Len(u) < 3 \/ u[1] # "\"" \/ u[2] = "\"" \/ u[3] # "\"" THEN ParseFail
        ELSE LET w == SkipWs(SubSeq(u, 4, Len(u)))
             IN  IF w = <<>> \/ Head(w) # ":" THEN ParseFail
                 ELSE LET r == ParseValue(Tail(w))
                      IN  IF ~r.ok THEN ParseFail
                          ELSE LET x == SkipWs(r.rest)
                                   grown == MapInsert(acc, u[2], r.v)
                               IN  IF x = <<>> THEN ParseFail
                                   ELSE IF Head(x) = "," THEN ParseEntries(Tail(x), grown)
                                   ELSE IF Head(x) = "}" THEN ParseOk([m |-> grown], Tail(x))
                                   ELSE ParseFail

\* one JSON value at the front of t
ParseValue(t) ==
    LET u == SkipWs(t)
    IN  IF u = <<>> THEN ParseFail
        ELSE IF \E n \in Numbers : Digit(n) = Head(u)
             THEN ParseOk([s |-> CHOOSE n \in Numbers : Digit(n) = Head(u)], Tail(u))
        ELSE IF Head(u) = "["
             THEN LET w == SkipWs(Tail(u))
                  IN  IF w # <<>> /\ Head(w) = "]" THEN ParseOk([q |-> <<>>], Tail(w))
                      ELSE ParseItems(Tail(u), <<>>)
        ELSE IF Head(u) = "{"
             THEN LET w == SkipWs(Tail(u))
                  IN  IF w # <<>> /\ Head(w) = "}" THEN ParseOk(EmptyMap, Tail(w))
                      ELSE ParseEntries(Tail(u), NoEntries)
        ELSE ParseFail

\* serde_json::from_str::<Value>(text): one value, then only white space
from_str(text) ==
    LET r == ParseValue(text)
    IN  IF r.ok /\ SkipWs(r.rest) = <<>> THEN [ok |-> TRUE, v |-> r.v] ELSE ParseFail

(***************************************************************************)
(* errors.rs: TokenProviderError and Result                                *)
(***************************************************************************)
Error(kind, detail) == [kind |-> kind, detail |-> detail]

NoError == Error("none", "")

Ok == [ok |-> TRUE]

Err(e) == [ok |-> FALSE, error |-> e]

Running == [ok |-> FALSE, error |-> Error("running", "")]

\* the Display of an error (#[error("...")]): the text of its variant, then its detail
Display(e) ==
    CASE e.kind = "InvalidBase64" -> "Invalid base64 input: " \o e.detail
      [] e.kind = "InvalidKeyLength" ->
             "Invalid key length: expected 32 bytes, got " \o e.detail
      [] e.kind = "InvalidIvLength" ->
             "Invalid IV length: expected 12 bytes, got " \o e.detail
      [] e.kind = "CryptoError" -> "Cryptographic operation failed: " \o e.detail
      [] e.kind = "JsonError" -> "JSON parsing error: " \o e.detail
      [] e.kind = "IoError" -> "I/O operation failed: " \o e.detail
      [] OTHER -> "Self-deletion failed: " \o e.detail

\* user_message(&self)
user_message(e) ==
    CASE e.kind = "InvalidBase64" -> "Please check your base64 input format"
      [] e.kind = "InvalidKeyLength" -> "Secret key must be exactly 32 bytes when decoded"
      [] e.kind = "InvalidIvLength" -> "IV/Nonce must be exactly 12 bytes when decoded"
      [] e.kind = "CryptoError" -> "Key or IV mismatch, or data corruption detected"
      [] OTHER -> Display(e)

\* mutant: a value of the wrong length is not recoverable
is_recoverable_LengthFatal(e) == e.kind \in {"InvalidBase64"}

is_recoverable(e) == e.kind \in {"InvalidBase64", "InvalidKeyLength", "InvalidIvLength"}

(***************************************************************************)
(* Bytes and characters.  A byte is a number in 0..255.  The characters of *)
(* a JSON text are ASCII and take one byte each; a byte string of the      *)
(* model is valid UTF-8 exactly when all its bytes are ASCII (the model    *)
(* has no multi-byte character).                                           *)
(***************************************************************************)
\* the code of the characters JSON texts are written with
Ascii ==
    [c \in {"\n", " ", "\"", ",", ":", "[", "]", "{", "}", "a", "b", "j", "n", "o",
            "s", "t"} \cup {Digit(n) : n \in Numbers} |->
        CASE c = "\n" -> 10 [] c = " " -> 32 [] c = "\"" -> 34 [] c = "," -> 44
          [] c = ":" -> 58 [] c = "[" -> 91 [] c = "]" -> 93 [] c = "{" -> 123
          [] c = "}" -> 125 [] c = "a" -> 97 [] c = "b" -> 98 [] c = "j" -> 106
          [] c = "n" -> 110 [] c = "o" -> 111 [] c = "s" -> 115 [] c = "t" -> 116
          [] OTHER -> 48 + (CHOOSE n \in Numbers : Digit(n) = c)]

\* the character of an ASCII byte
CharOf(b) ==
    IF \E c \in DOMAIN Ascii : Ascii[c] = b
    THEN CHOOSE c \in DOMAIN Ascii : Ascii[c] = b
    ELSE "\\x" \o ToString(b)

\* String::into_bytes / str::as_bytes
Utf8(text) == [i \in 1..Len(text) |-> Ascii[text[i]]]

\* a byte string that is not valid UTF-8
NotUtf8 == <<255>>

NotJson == <<"n", "o", "t", " ", "j", "s", "o", "n">>

\* String::from_utf8(bytes)
from_utf8(bytes) ==
    IF \E i \in 1..Len(bytes) : bytes[i] >= 128
    THEN [ok |-> FALSE]
    ELSE [ok |-> TRUE, text |-> [i \in 1..Len(bytes) |-> CharOf(bytes[i])]]

(***************************************************************************)
(* Base64 (base64::engine::general_purpose::STANDARD) and input.rs.  A     *)
(* credential text is a sequence of characters.                            *)
(***************************************************************************)
RECURSIVE TrailingPadding(_)
RECURSIVE DecodeSextets(_)

AsciiLetters ==
    {"A", "B", "C", "D", "E", "F", "G", "H", "I", "J", "K", "L", "M", "N", "O", "P",
     "Q", "R", "S", "T", "U", "V", "W", "X", "Y", "Z", "a", "b", "c", "d", "e", "f",
     "g", "h", "i", "j", "k", "l", "m", "n", "o", "p", "q", "r", "s", "t", "u", "v",
     "w", "x", "y", "z"}

AsciiDigits == {"0", "1", "2", "3", "4", "5", "6", "7", "8", "9"}

\* char::is_ascii_alphanumeric
is_ascii_alphanumeric(c) == c \in AsciiLetters \cup AsciiDigits

\* the alphabet of the STANDARD engine, in the order of its 6-bit values
StandardAlphabet ==
    <<"A", "B", "C", "D", "E", "F", "G", "H", "I", "J", "K", "L", "M", "N", "O", "P",
      "Q", "R", "S", "T", "U", "V", "W", "X", "Y", "Z", "a", "b", "c", "d", "e", "f",
      "g", "h", "i", "j", "k", "l", "m", "n", "o", "p", "q", "r", "s", "t", "u", "v",
      "w", "x", "y", "z", "0", "1", "2", "3", "4", "5", "6", "7", "8", "9", "+", "/">>

IsSymbol(c) == \E i \in 1..Len(StandardAlphabet) : StandardAlphabet[i] = c

Sextet(c) == (CHOOSE i \in 1..Len(StandardAlphabet) : StandardAlphabet[i] = c) - 1

\* input.chars().rev().take_while(|&c| c == '=').count()
TrailingPadding(input) ==
    IF input # <<>> /\ input[Len(input)] = "="
    THEN 1 + TrailingPadding(SubSeq(input, 1, Len(input) - 1))
    ELSE 0

\* mutant: a run of exactly two trailing '=' is rejected as well
validate_base64_format_Strict(input) ==
    /\ \A i \in 1..Len(input) :
           is_ascii_alphanumeric(input[i]) \/ input[i] \in {"+", "/", "="}
    /\ ~(TrailingPadding(input) >= 2)

\* validate_base64_format(input).is_ok()
validate_base64_format(input) ==
    /\ \A i \in 1..Len(input) :
           is_ascii_alphanumeric(input[i]) \/ input[i] \in {"+", "/", "="}
    /\ ~(TrailingPadding(input) > 2)

\* the bytes of a sequence of 6-bit values: three bytes for each four values, then
\* one byte for two values and two bytes for three
DecodeSextets(v) ==
    IF Len(v) < 2 THEN <<>>
    ELSE IF Len(v) = 2 THEN <<v[1] * 4 + v[2] \div 16>>
    ELSE IF Len(v) = 3
         THEN <<v[1] * 4 + v[2] \div 16, (v[2] % 16) * 16 + v[3] \div 4>>
         ELSE <<v[1] * 4 + v[2] \div 16, (v[2] % 16) * 16 + v[3] \div 4,
                (v[3] % 4) * 64 + v[4]>>
              \o DecodeSextets(SubSeq(v, 5, Len(v)))

\* general_purpose::STANDARD.decode(text): the symbols, then the canonical padding
\* to a multiple of four characters; the bits of the last symbol that belong to no
\* byte are zero
Base64Decode(text) ==
    LET pad == TrailingPadding(text)
        data == SubSeq(text, 1, Len(text) - pad)
        last == Sextet(data[Len(data)])
    IN  IF \E i \in 1..Len(data) : ~IsSymbol(data[i]) THEN [ok |-> FALSE]
        ELSE IF Len(data) % 4 = 0 /\ pad = 0
             THEN [ok |-> TRUE, v |-> DecodeSextets([i \in 1..Len(data) |-> Sextet(data[i])])]
        ELSE IF \/ Len(data) % 4 = 2 /\ pad = 2 /\ last % 16 = 0
                \/ Len(data) % 4 = 3 /\ pad = 1 /\ last % 4 = 0
             THEN [ok |-> TRUE, v |-> DecodeSextets([i \in 1..Len(data) |-> Sextet(data[i])])]
        ELSE [ok |-> FALSE]

\* crypto/mod.rs: the sizes of the key and of the nonce, in bytes
KEY_SIZE == 32

NONCE_SIZE == 12

(***************************************************************************)
(* input.rs: what the prompts are answered with                            *)
(***************************************************************************)
RECURSIVE TrimStart(_)
RECURSIVE TrimEnd(_)
RECURSIVE Base64Encode(_)

IsWhitespace(c) == c \in {" ", "\n", "\t", "\r"}

TrimStart(t) == IF t # <<>> /\ IsWhitespace(Head(t)) THEN TrimStart(Tail(t)) ELSE t

TrimEnd(t) ==
    IF t # <<>> /\ IsWhitespace(t[Len(t)]) THEN TrimEnd(SubSeq(t, 1, Len(t) - 1)) ELSE t

\* str::trim
trim(t) == TrimEnd(TrimStart(t))

Rep(c, n) == [i \in 1..n |-> c]

\* general_purpose::STANDARD.encode(bytes)
Base64Encode(bytes) ==
    LET Symbol(v) == StandardAlphabet[v + 1]
    IN  IF bytes = <<>> THEN <<>>
        ELSE IF Len(bytes) = 1
             THEN <<Symbol(bytes[1] \div 4), Symbol((bytes[1] % 4) * 16), "=", "=">>
        ELSE IF Len(bytes) = 2
             THEN <<Symbol(bytes[1] \div 4),
                    Symbol((bytes[1] % 4) * 16 + bytes[2] \div 16),
                    Symbol((bytes[2] % 16) * 4), "=">>
        ELSE <<Symbol(bytes[1] \div 4),
               Symbol((bytes[1] % 4) * 16 + bytes[2] \div 16),
               Symbol((bytes[2] % 16) * 4 + bytes[3] \div 64),
               Symbol(bytes[3] % 64)>>
             \o Base64Encode(SubSeq(bytes, 4, Len(bytes)))

\* the credentials the embedded ciphertext is sealed with: 32 and 12 bytes '0'
BuildKey == Rep(48, KEY_SIZE)

BuildNonce == Rep(48, NONCE_SIZE)

\* the texts a prompt may be answered with, for a credential of size bytes: the
\* text of the build's credential, of another one of the same size, of values one
\* byte shorter and longer, of the four bytes "test" and of none, texts the engine
\* cannot decode, and texts the format check rejects
CredentialTexts(size) ==
    {Base64Encode(Rep(48, size)), Base64Encode(<<49>> \o Rep(48, size - 1)),
     Base64Encode(Rep(48, size - 1)), Base64Encode(Rep(48, size + 1)),
     Base64Encode(<<116, 101, 115, 116>>), <<>>,
     <<"A">>, <<"A", "B", "=", "=">>, <<"A", "=", "A", "A">>,
     <<"A", "=", "=", "=">>, <<"@">>, Base64Encode(Rep(48, size)) \o <<" ">>}

\* what read_line stores for a typed line, and for the end of the input
InputLines(size) ==
    {t \o <<"\n">> : t \in CredentialTexts(size)}
    \cup {<<" ">> \o Base64Encode(Rep(48, size)) \o <<"\r", "\n">>, <<>>}

(***************************************************************************)
(* crypto/mod.rs: decode_and_validate_key, decode_and_validate_nonce       *)
(***************************************************************************)
\* mutant: a decoded value longer than the key is cut to the key's size
decode_and_validate_key_Truncates(base64_key) ==
    LET decoded == Base64Decode(base64_key)
    IN  IF ~decoded.ok THEN Err(Error("InvalidBase64", "decode"))
        ELSE IF Len(decoded.v) < KEY_SIZE
             THEN Err(Error("InvalidKeyLength", ToString(Len(decoded.v))))
             ELSE [ok |-> TRUE, v |-> SubSeq(decoded.v, 1, KEY_SIZE)]

\* decode_and_validate_key(base64_key)
decode_and_validate_key(base64_key) ==
    LET decoded == Base64Decode(base64_key)
    IN  IF ~decoded.ok THEN Err(Error("InvalidBase64", "decode"))
        ELSE IF Len(decoded.v) # KEY_SIZE
             THEN Err(Error("InvalidKeyLength", ToString(Len(decoded.v))))
             ELSE [ok |-> TRUE, v |-> decoded.v]

\* mutant: the length of the nonce is checked against the size of the key
decode_and_validate_nonce_KeySize(base64_nonce) ==
    LET decoded == Base64Decode(base64_nonce)
    IN  IF ~decoded.ok THEN Err(Error("InvalidBase64", "decode"))
        ELSE IF Len(decoded.v) # KEY_SIZE
             THEN Err(Error("InvalidIvLength", ToString(Len(decoded.v))))
             ELSE [ok |-> TRUE, v |-> decoded.v]

\* decode_and_validate_nonce(base64_nonce)
decode_and_validate_nonce(base64_nonce) ==
    LET decoded == Base64Decode(base64_nonce)
    IN  IF ~decoded.ok THEN Err(Error("InvalidBase64", "decode"))
        ELSE IF Len(decoded.v) # NONCE_SIZE
             THEN Err(Error("InvalidIvLength", ToString(Len(decoded.v))))
             ELSE [ok |-> TRUE, v |-> decoded.v]

(***************************************************************************)
(* Aes256Gcm (aes_gcm).  The cipher is modelled by its structure: the body *)
(* of the ciphertext is the data XOR a keystream drawn from key, nonce and *)
(* position, and the TAG_SIZE bytes after it are a checksum of the body    *)
(* keyed with key and nonce, verified before anything is decrypted.        *)
(***************************************************************************)
RECURSIVE Xor(_, _, _)
RECURSIVE Sum(_)

TAG_SIZE == 16

\* the XOR of the low w bits of a and b
Xor(a, b, w) ==
    IF w = 0 THEN 0 ELSE ((a + b) % 2) + 2 * Xor(a \div 2, b \div 2, w - 1)

Sum(s) == IF s = <<>> THEN 0 ELSE Head(s) + Sum(Tail(s))

\* the keystream byte at position i
KeyStream(k, n, i) ==
    (k[((i - 1) % KEY_SIZE) + 1] + n[((i - 1) % NONCE_SIZE) + 1] + 31 * i) % 256

\* the data XOR the keystream (encryption and decryption of the body alike)
ApplyKeyStream(k, n, data) == [i \in 1..Len(data) |-> Xor(data[i], KeyStream(k, n, i), 8)]

\* the authentication tag of a body
Tag(k, n, body) ==
    [j \in 1..TAG_SIZE |-> (Sum(body) + Len(body) + j * (1 + Sum(k)) + Sum(n)) % 256]

\* cipher.encrypt(nonce, data): body, then tag
Aes256GcmEncrypt(k, n, data) ==
    LET body == ApplyKeyStream(k, n, data)
    IN  [ok |-> TRUE, v |-> body \o Tag(k, n, body)]

\* cipher.decrypt(nonce, ciphertext): the tag is verified, then the body decrypted
Aes256GcmDecrypt(k, n, ciphertext) ==
    IF Len(ciphertext) < TAG_SIZE THEN [ok |-> FALSE]
    ELSE LET body == SubSeq(ciphertext, 1, Len(ciphertext) - TAG_SIZE)
             tag == SubSeq(ciphertext, Len(ciphertext) - TAG_SIZE + 1, Len(ciphertext))
         IN  IF tag # Tag(k, n, body) THEN [ok |-> FALSE]
             ELSE [ok |-> TRUE, v |-> ApplyKeyStream(k, n, body)]

\* encrypt_data(data, key, nonce)
encrypt_data(data, k, n) ==
    LET r == Aes256GcmEncrypt(k, n, data)
    IN  IF r.ok THEN r ELSE Err(Error("CryptoError", "aead::Error"))

\* mutant: the body is decrypted without the tag being verified
decrypt_data_Unverified(ciphertext, k, n) ==
    IF Len(ciphertext) < TAG_SIZE THEN Err(Error("CryptoError", "aead::Error"))
    ELSE [ok |-> TRUE,
          v |-> ApplyKeyStream(k, n, SubSeq(ciphertext, 1, Len(ciphertext) - TAG_SIZE))]

\* mutant: the nonce is not handed to the cipher, which runs with a fixed one
decrypt_data_FixedNonce(ciphertext, k, n) ==
    LET r == Aes256GcmDecrypt(k, [i \in 1..NONCE_SIZE |-> 0], ciphertext)
    IN  IF r.ok THEN r ELSE Err(Error("CryptoError", "aead::Error"))

\* decrypt_data(ciphertext, key, nonce)
decrypt_data(ciphertext, k, n) ==
    LET r == Aes256GcmDecrypt(k, n, ciphertext)
    IN  IF r.ok THEN r ELSE Err(Error("CryptoError", "aead::Error"))

\* the ciphertext with bit b of its byte i changed
FlipBit(ciphertext, i, b) == [ciphertext EXCEPT ![i] = Xor(@, 2 ^ b, 8)]

\* ENCRYPTED_CONFIG as the build makes it from a plaintext
Sealed(plain) == encrypt_data(plain, BuildKey, BuildNonce).v

\* ENCRYPTED_CONFIG with one bit changed after the build
Tampered(plain) == FlipBit(Sealed(plain), 1, 0)

\* ENCRYPTED_CONFIG of a build that embedded nothing
EmptyCiphertext == <<>>

(***************************************************************************)
(* config/file_ops.rs                                                      *)
(***************************************************************************)
AbsentFile == [exists |-> FALSE, bytes |-> NotUtf8]

FileOf(bytes) == [exists |-> TRUE, bytes |-> bytes]

None == [ok |-> TRUE, some |-> FALSE]

Some(v) == [ok |-> TRUE, some |-> TRUE, v |-> v]

\* read_existing_config(config_path); readFault: the read itself fails
read_existing_config(f, readFault) ==
    IF ~f.exists THEN None
    ELSE IF readFault THEN Err(Error("IoError", "read"))
    ELSE IF ~from_utf8(f.bytes).ok THEN Err(Error("IoError", "InvalidData"))
    ELSE LET parsed == from_str(from_utf8(f.bytes).text)
         IN  IF parsed.ok THEN Some(parsed.v) ELSE None

\* mutant: the new config is written without merging it into the existing one
final_config_NoMerge(existingOpt, new_config) == new_config

\* let final_config = match read_existing_config(..)? { Some(..) => .., None => .. }
final_config(existingOpt, new_config) ==
    IF existingOpt.some
    THEN deep_merge_json(existingOpt.v, new_config)
    ELSE new_config

\* mutant: the text is appended to the file instead of replacing its content
FilesAfterWrite_Appends(f, text, how) ==
    CASE how = "ok" -> {FileOf((IF f.exists THEN f.bytes ELSE <<>>) \o Utf8(text))}
      [] how = "create_fails" -> {f}
      [] how = "write_fails" -> {FileOf(Utf8(SubSeq(text, 1, n))) : n \in 0..(Len(text) - 1)}

\* the file after fs::write(config_path, text): "ok", or the create fails and the
\* file is as before, or the write fails after the create truncated the file
FilesAfterWrite(f, text, how) ==
    CASE how = "ok" -> {FileOf(Utf8(text))}
      [] how = "create_fails" -> {f}
      [] how = "write_fails" -> {FileOf(Utf8(SubSeq(text, 1, n))) : n \in 0..(Len(text) - 1)}

(***************************************************************************)
(* self_deletion.rs                                                        *)
(***************************************************************************)
DeletionOutcomes == {"ok", "exe_err", "delete_err"}

\* perform_self_deletion(); how: what the platform answers
perform_self_deletion(how) ==
    CASE how = "exe_err" -> Err(Error("IoError", "current_exe"))
      [] how = "delete_err" -> Err(Error("SelfDeletionError", "Failed to delete executable"))
      [] how = "ok" -> Ok

(***************************************************************************)
(* main.rs: run_application, one action per step that does I/O             *)
(***************************************************************************)
MaxAttempts == 2

RunPositions ==
    {"idle", "AwaitingKey", "PromptNonce", "AwaitingNonce", "Decrypting",
     "ParsingPlaintext", "EnsureDir", "ReadExisting", "WriteConfig", "Persisted",
     "Failed", "PersistedCleanedUp", "FailedCleanedUp", "Exited"}

\* the stage of 4.5 a position belongs to
Stage ==
    CASE pc \in {"AwaitingKey", "PromptNonce", "AwaitingNonce"} -> "AwaitingCredentials"
      [] pc \in {"EnsureDir", "ReadExisting", "WriteConfig"} -> "Merging"
      [] pc \in {"Persisted", "PersistedCleanedUp"} -> "Persisted"
      [] pc \in {"Failed", "FailedCleanedUp"} -> "Failed"
      [] OTHER -> pc

\* mappings whose one entry is itself a mapping of scalars
NestedDocs == {[m |-> [a |-> d]] : d \in Maps(Scalars)}

FileDocs == Leaves \cup Maps(Scalars) \cup NestedDocs

OverlayDocs == Leaves \cup Maps(Scalars) \cup NestedDocs

\* the config file a run may find
InitialFiles ==
    {AbsentFile, FileOf(NotUtf8), FileOf(Utf8(NotJson)), FileOf(Utf8(<<>>))}
    \cup {FileOf(Utf8(to_string_pretty(d))) : d \in FileDocs}

\* the ciphertext a build may embed
EmbeddedCiphertexts ==
    {EmptyCiphertext, Sealed(NotUtf8), Sealed(Utf8(NotJson)),
     Tampered(Utf8(to_string_pretty(EmptyMap))), Sealed(<<>>)}
    \cup {Sealed(Utf8(to_string_pretty(o))) : o \in OverlayDocs}

RunIdle ==
    /\ pc = "idle"
    /\ attempts = 0
    /\ file = AbsentFile
    /\ file0 = AbsentFile
    /\ dirExists = FALSE
    /\ embedded = EmptyCiphertext
    /\ key = <<>>
    /\ nonce = <<>>
    /\ plaintext = NotUtf8
    /\ config_json = EmptyMap
    /\ existingCfg = None
    /\ err = NoError
    /\ outcome = "running"
    /\ deletions = 0
    /\ deletionResult = Running
    /\ result = Running

InitRun ==
    /\ pc = "AwaitingKey"
    /\ attempts = 0
    /\ file \in InitialFiles
    /\ file0 = file
    /\ dirExists \in BOOLEAN
    /\ file.exists => dirExists
    /\ embedded \in EmbeddedCiphertexts
    /\ key = <<>>
    /\ nonce = <<>>
    /\ plaintext = NotUtf8
    /\ config_json = EmptyMap
    /\ existingCfg = None
    /\ err = NoError
    /\ outcome = "running"
    /\ deletions = 0
    /\ deletionResult = Running
    /\ result = Running

\* return Err(e) from run_application (by ? or by return)
Fail(e) ==
    /\ pc' = "Failed"
    /\ err' = e
    /\ outcome' = "Failed"

\* continue: the loop prompts again, any number of times (rejected answers are
\* counted up to MaxAttempts)
Retry ==
    /\ attempts' = IF attempts < MaxAttempts THEN attempts + 1 ELSE attempts
    /\ UNCHANGED <<pc, err, outcome>>

\* one iteration of the loop of get_secret_key
GetSecretKey ==
    /\ pc = "AwaitingKey"
    /\ \E promptFails \in BOOLEAN, input \in CredentialTexts(KEY_SIZE) :
           IF promptFails
           THEN Fail(Error("IoError", "prompt")) /\ attempts' = 0 /\ UNCHANGED key
           ELSE IF ~validate_base64_format(input)
           THEN Retry /\ UNCHANGED key
           ELSE LET r == decode_and_validate_key(input)
                IN  IF r.ok
                    THEN /\ key' = r.v
                         /\ pc' = "PromptNonce"
                         /\ attempts' = 0
                         /\ UNCHANGED <<err, outcome>>
                    ELSE IF ~is_recoverable(r.error)
                    THEN Fail(r.error) /\ attempts' = 0 /\ UNCHANGED key
                    ELSE Retry /\ UNCHANGED key
    /\ UNCHANGED <<file, file0, dirExists, embedded, nonce, plaintext, config_json,
                   existingCfg, deletions, deletionResult, result>>

\* get_nonce up to its loop: print the prompt and flush stdout
PromptNonce ==
    /\ pc = "PromptNonce"
    /\ \E flushFails \in BOOLEAN :
           IF flushFails
           THEN Fail(Error("IoError", "flush")) /\ attempts' = 0
           ELSE pc' = "AwaitingNonce" /\ UNCHANGED <<attempts, err, outcome>>
    /\ UNCHANGED <<file, file0, dirExists, embedded, key, nonce, plaintext,
                   config_json, existingCfg, deletions, deletionResult, result>>

\* one iteration of the loop of get_nonce
GetNonce ==
    /\ pc = "AwaitingNonce"
    /\ \E readFails \in BOOLEAN, flushFails \in BOOLEAN,
          line \in InputLines(NONCE_SIZE) :
           LET input == trim(line)
           IN
           IF readFails
           THEN Fail(Error("IoError", "read_line")) /\ attempts' = 0 /\ UNCHANGED nonce
           ELSE IF ~validate_base64_format(input)
           THEN /\ UNCHANGED nonce
                /\ IF flushFails
                   THEN Fail(Error("IoError", "flush")) /\ attempts' = 0
                   ELSE Retry
           ELSE LET r == decode_and_validate_nonce(input)
                IN  IF r.ok
                    THEN /\ nonce' = r.v
                         /\ pc' = "Decrypting"
                         /\ attempts' = 0
                         /\ UNCHANGED <<err, outcome>>
                    ELSE /\ UNCHANGED nonce
                         /\ IF ~is_recoverable(r.error)
                            THEN Fail(r.error) /\ attempts' = 0
                            ELSE IF flushFails
                            THEN Fail(Error("IoError", "flush")) /\ attempts' = 0
                            ELSE Retry
    /\ UNCHANGED <<file, file0, dirExists, embedded, key, plaintext, config_json,
                   existingCfg, deletions, deletionResult, result>>

\* mutant: the decrypted bytes are handed to the merge without being parsed
Decrypt_SkipsParse ==
    /\ pc = "Decrypting"
    /\ IF embedded = <<>>
       THEN Fail(Error("CryptoError", "No encrypted configuration data found"))
            /\ UNCHANGED plaintext
       ELSE LET r == decrypt_data(embedded, key, nonce)
            IN  IF r.ok
                THEN /\ plaintext' = r.v
                     /\ pc' = "EnsureDir"
                     /\ UNCHANGED <<err, outcome>>
                ELSE Fail(r.error) /\ UNCHANGED plaintext
    /\ UNCHANGED <<attempts, file, file0, dirExists, embedded, key, nonce, config_json,
                   existingCfg, deletions, deletionResult, result>>

\* mutant: after a failed decryption the key is asked for again
Decrypt_Reprompts ==
    /\ pc = "Decrypting"
    /\ IF embedded = <<>>
       THEN Fail(Error("CryptoError", "No encrypted configuration data found"))
            /\ UNCHANGED plaintext
       ELSE LET r == decrypt_data(embedded, key, nonce)
            IN  IF r.ok
                THEN /\ plaintext' = r.v
                     /\ pc' = "ParsingPlaintext"
                     /\ UNCHANGED <<err, outcome>>
                ELSE pc' = "AwaitingKey" /\ UNCHANGED <<plaintext, err, outcome>>
    /\ UNCHANGED <<attempts, file, file0, dirExists, embedded, key, nonce, config_json,
                   existingCfg, deletions, deletionResult, result>>

\* mutant: the config directory is created before the ciphertext is decrypted
Decrypt_CreatesDir ==
    /\ pc = "Decrypting"
    /\ dirExists' = TRUE
    /\ IF embedded = <<>>
       THEN Fail(Error("CryptoError", "No encrypted configuration data found"))
            /\ UNCHANGED plaintext
       ELSE LET r == decrypt_data(embedded, key, nonce)
            IN  IF r.ok
                THEN /\ plaintext' = r.v
                     /\ pc' = "ParsingPlaintext"
                     /\ UNCHANGED <<err, outcome>>
                ELSE Fail(r.error) /\ UNCHANGED plaintext
    /\ UNCHANGED <<attempts, file, file0, embedded, key, nonce, config_json,
                   existingCfg, deletions, deletionResult, result>>

\* Step 2: the check of ENCRYPTED_CONFIG.is_empty() and decrypt_data
Decrypt ==
    /\ pc = "Decrypting"
    /\ IF embedded = <<>>
       THEN Fail(Error("CryptoError", "No encrypted configuration data found"))
            /\ UNCHANGED plaintext
       ELSE LET r == decrypt_data(embedded, key, nonce)
            IN  IF r.ok
                THEN /\ plaintext' = r.v
                     /\ pc' = "ParsingPlaintext"
                     /\ UNCHANGED <<err, outcome>>
                ELSE Fail(r.error) /\ UNCHANGED plaintext
    /\ UNCHANGED <<attempts, file, file0, dirExists, embedded, key, nonce, config_json,
                   existingCfg, deletions, deletionResult, result>>

\* Step 3: String::from_utf8 and serde_json::from_str
ParsePlaintext ==
    /\ pc = "ParsingPlaintext"
    /\ IF ~from_utf8(plaintext).ok
       THEN Fail(Error("CryptoError", "Decrypted data is not valid UTF-8"))
            /\ UNCHANGED config_json
       ELSE LET parsed == from_str(from_utf8(plaintext).text)
            IN  IF parsed.ok
                THEN /\ config_json' = parsed.v
                     /\ pc' = "EnsureDir"
                     /\ UNCHANGED <<err, outcome>>
                ELSE Fail(Error("JsonError", "from_str")) /\ UNCHANGED config_json
    /\ UNCHANGED <<attempts, file, file0, dirExists, embedded, key, nonce, plaintext,
                   existingCfg, deletions, deletionResult, result>>

\* Step 4, apply_config_update: get_config_path and ensure_config_dir
EnsureConfigDir ==
    /\ pc = "EnsureDir"
    /\ \E how \in {"ok", "no_home", "mkdir_fails"} :
           CASE how = "no_home" ->
                    Fail(Error("IoError", "Home directory not found"))
                    /\ UNCHANGED dirExists
             [] how = "mkdir_fails" ->
                    Fail(Error("IoError", "create_dir_all")) /\ UNCHANGED dirExists
             [] how = "ok" ->
                    /\ dirExists' = TRUE
                    /\ pc' = "ReadExisting"
                    /\ UNCHANGED <<err, outcome>>
    /\ UNCHANGED <<attempts, file, file0, embedded, key, nonce, plaintext, config_json,
                   existingCfg, deletions, deletionResult, result>>

\* apply_config_update: read_existing_config(&config_path)?
ReadExisting ==
    /\ pc = "ReadExisting"
    /\ \E readFault \in BOOLEAN :
           LET r == read_existing_config(file, readFault)
           IN  IF r.ok
               THEN /\ existingCfg' = r
                    /\ pc' = "WriteConfig"
                    /\ UNCHANGED <<err, outcome>>
               ELSE Fail(r.error) /\ UNCHANGED existingCfg
    /\ UNCHANGED <<attempts, file, file0, dirExists, embedded, key, nonce, plaintext,
                   config_json, deletions, deletionResult, result>>

\* apply_config_update: the merge and write_config(&config_path, &final_config)?
WriteConfig ==
    /\ pc = "WriteConfig"
    /\ LET text == to_string_pretty(final_config(existingCfg, config_json))
       IN  \E how \in {"ok", "create_fails", "write_fails"} :
               /\ file' \in FilesAfterWrite(file, text, how)
               /\ IF how = "ok"
                  THEN pc' = "Persisted" /\ outcome' = "Persisted" /\ UNCHANGED err
                  ELSE Fail(Error("IoError", "write"))
    /\ UNCHANGED <<attempts, file0, dirExists, embedded, key, nonce, plaintext,
                   config_json, existingCfg, deletions, deletionResult, result>>

(***************************************************************************)
(* main.rs: main, after run_application returned                           *)
(***************************************************************************)
\* mutant: the failure arm returns without attempting the deletion
CleanupAfterFailure_Skipped ==
    /\ pc = "Failed"
    /\ pc' = "FailedCleanedUp"
    /\ UNCHANGED <<attempts, file, file0, dirExists, embedded, key, nonce, plaintext,
                   config_json, existingCfg, err, outcome, deletions, deletionResult,
                   result>>

\* Err(e) arm: perform_self_deletion()
CleanupAfterFailure ==
    /\ pc = "Failed"
    /\ \E how \in DeletionOutcomes : deletionResult' = perform_self_deletion(how)
    /\ deletions' = deletions + 1
    /\ pc' = "FailedCleanedUp"
    /\ UNCHANGED <<attempts, file, file0, dirExists, embedded, key, nonce, plaintext,
                   config_json, existingCfg, err, outcome, result>>

\* mutant: a cleanup error is returned in place of the pipeline's error
FailureResult_CleanupWins(e, deletion) ==
    IF deletion.ok THEN Err(e) ELSE Err(deletion.error)

\* Err(e) arm: what main returns, with or without a deletion error
FailureResult(e, deletion) ==
    IF ~deletion.ok THEN Err(e) ELSE Err(e)

ReturnAfterFailure ==
    /\ pc = "FailedCleanedUp"
    /\ result' = FailureResult(err, deletionResult)
    /\ pc' = "Exited"
    /\ UNCHANGED <<attempts, file, file0, dirExists, embedded, key, nonce, plaintext,
                   config_json, existingCfg, err, outcome, deletions, deletionResult>>

\* mutant: the success arm returns without attempting the deletion
CleanupAfterSuccess_Skipped ==
    /\ pc = "Persisted"
    /\ pc' = "PersistedCleanedUp"
    /\ UNCHANGED <<attempts, file, file0, dirExists, embedded, key, nonce, plaintext,
                   config_json, existingCfg, err, outcome, deletions, deletionResult,
                   result>>

\* Ok(()) arm: perform_self_deletion()
CleanupAfterSuccess ==
    /\ pc = "Persisted"
    /\ \E how \in DeletionOutcomes : deletionResult' = perform_self_deletion(how)
    /\ deletions' = deletions + 1
    /\ pc' = "PersistedCleanedUp"
    /\ UNCHANGED <<attempts, file, file0, dirExists, embedded, key, nonce, plaintext,
                   config_json, existingCfg, err, outcome, result>>

\* Ok(()) arm: match perform_self_deletion() { Ok(()) => Ok(()), Err(d) => Err(d) }
SuccessResult(deletion) ==
    IF deletion.ok THEN Ok ELSE Err(deletion.error)

ReturnAfterSuccess ==
    /\ pc = "PersistedCleanedUp"
    /\ result' = SuccessResult(deletionResult)
    /\ pc' = "Exited"
    /\ UNCHANGED <<attempts, file, file0, dirExists, embedded, key, nonce, plaintext,
                   config_json, existingCfg, err, outcome, deletions, deletionResult>>

\* what the invoking environment sees of main's return value
ExitStatus(r) == IF r.ok THEN "success" ELSE "failure"

(***************************************************************************)
(* SpecMerge: deep_merge_json applied to every pair of Documents           *)
(***************************************************************************)
MergeIdle ==
    /\ mpc = "idle"
    /\ existing = EmptyMap
    /\ new = EmptyMap
    /\ base0 = EmptyMap
    /\ merged1 = EmptyMap

\* the inputs of the merge: every pair of Documents
MergeInputs ==
    /\ mpc = "start"
    /\ existing \in Docs2
    /\ new \in Docs2
    /\ base0 = existing
    /\ merged1 = EmptyMap

\* deep_merge_json(&mut existing, new)
Merge ==
    /\ mpc = "start"
    /\ existing' = deep_merge_json(existing, new)
    /\ merged1' = existing'
    /\ mpc' = "merged"
    /\ UNCHANGED <<new, base0>>

\* deep_merge_json(&mut existing, new) again, with the same overlay
MergeAgain ==
    /\ mpc = "merged"
    /\ existing' = deep_merge_json(existing, new)
    /\ mpc' = "remerged"
    /\ UNCHANGED <<new, base0, merged1>>

(***************************************************************************)
(* SpecInput: the validators applied to a credential text                  *)
(***************************************************************************)
MaxTextLen == 4

\* the characters short texts are made of: letters, a digit, the other symbols
\* of the alphabet, the padding, and characters outside the alphabet
TextChars == {"A", "w", "9", "+", "/", "=", "@", "U+00E9"}

RECURSIVE TextsOfLen(_)

TextsOfLen(n) ==
    IF n = 0 THEN {<<>>}
    ELSE {Append(t, c) : t \in TextsOfLen(n - 1), c \in TextChars}

\* every text of at most MaxTextLen characters, and the texts of the prompts
InputTexts ==
    UNION {TextsOfLen(n) : n \in 0..MaxTextLen}
    \cup CredentialTexts(KEY_SIZE) \cup CredentialTexts(NONCE_SIZE)

InputIdle ==
    /\ ipc = "idle"
    /\ itext = <<>>
    /\ formatOk = FALSE
    /\ keyResult = Running
    /\ nonceResult = Running

InputTextsInit ==
    /\ ipc = "start"
    /\ itext \in InputTexts
    /\ formatOk = FALSE
    /\ keyResult = Running
    /\ nonceResult = Running

\* validate_base64_format(text)
CheckFormat ==
    /\ ipc = "start"
    /\ formatOk' = validate_base64_format(itext)
    /\ ipc' = "formatted"
    /\ UNCHANGED <<itext, keyResult, nonceResult>>

\* decode_and_validate_key(text)
DecodeKey ==
    /\ ipc = "start"
    /\ keyResult' = decode_and_validate_key(itext)
    /\ ipc' = "keyDecoded"
    /\ UNCHANGED <<itext, formatOk, nonceResult>>

\* decode_and_validate_nonce(text)
DecodeNonce ==
    /\ ipc = "start"
    /\ nonceResult' = decode_and_validate_nonce(itext)
    /\ ipc' = "nonceDecoded"
    /\ UNCHANGED <<itext, formatOk, keyResult>>

(***************************************************************************)
(* SpecCodec: encrypt_data and decrypt_data as pure functions              *)
(***************************************************************************)
MaxPlainLen == 2

\* the bytes plaintexts are made of
PlainBytes == {0, 123, 255}

RECURSIVE PlainsOfLen(_)

PlainsOfLen(n) ==
    IF n = 0 THEN {<<>>}
    ELSE {Append(t, b) : t \in PlainsOfLen(n - 1), b \in PlainBytes}

Plaintexts == UNION {PlainsOfLen(n) : n \in 0..MaxPlainLen}

CodecKeys == {BuildKey, <<49>> \o Rep(48, KEY_SIZE - 1), [i \in 1..KEY_SIZE |-> i]}

CodecNonces == {BuildNonce, Rep(255, NONCE_SIZE)}

CodecIdle ==
    /\ cpc = "idle"
    /\ cplain = <<>>
    /\ ckey = BuildKey
    /\ cnonce = BuildNonce
    /\ csealed = <<>>
    /\ copened = Running

CodecInputs ==
    /\ cpc = "start"
    /\ cplain \in Plaintexts
    /\ ckey \in CodecKeys
    /\ cnonce \in CodecNonces
    /\ csealed = <<>>
    /\ copened = Running

\* let ciphertext = encrypt_data(plaintext, &key, &nonce).unwrap()
Encrypt ==
    /\ cpc = "start"
    /\ encrypt_data(cplain, ckey, cnonce).ok
    /\ csealed' = encrypt_data(cplain, ckey, cnonce).v
    /\ cpc' = "sealed"
    /\ UNCHANGED <<cplain, ckey, cnonce, copened>>

\* one bit of the ciphertext, in its body or in its tag, is changed
TamperBit ==
    /\ cpc = "sealed"
    /\ \E i \in 1..Len(csealed), b \in 0..7 : csealed' = FlipBit(csealed, i, b)
    /\ cpc' = "tampered"
    /\ UNCHANGED <<cplain, ckey, cnonce, copened>>

\* decrypt_data(&ciphertext, &key, &nonce), with the key and nonce of encrypt_data
DecryptSealed ==
    /\ cpc \in {"sealed", "tampered"}
    /\ copened' = decrypt_data(csealed, ckey, cnonce)
    /\ cpc' = IF cpc = "sealed" THEN "opened" ELSE "tamperedOpened"
    /\ UNCHANGED <<cplain, ckey, cnonce, csealed>>

(***************************************************************************)
(* SpecRace: two invocations of apply_config_update (config/file_ops.rs)   *)
(* run concurrently on one config file; each reads, then merges and writes *)
(***************************************************************************)
Procs == {1, 2}

\* the overlays of the two invocations: one key each
RaceOverlays == {[m |-> MapInsert(NoEntries, k, v)] : k \in Keys, v \in Scalars}

\* the config file before them
RaceFiles ==
    {AbsentFile, FileOf(Utf8(NotJson))}
    \cup {FileOf(Utf8(to_string_pretty(d))) :
              d \in {EmptyMap, [m |-> MapInsert(NoEntries, "a", [s |-> 1])], [s |-> 1]}}

RaceIdle ==
    /\ rpc = [p \in Procs |-> "idle"]
    /\ roverlay = [p \in Procs |-> EmptyMap]
    /\ rloaded = [p \in Procs |-> None]
    /\ rsavesAtLoad = [p \in Procs |-> 0]
    /\ rfile = AbsentFile
    /\ rfile0 = AbsentFile
    /\ rfile1 = AbsentFile
    /\ rorder = <<>>

RaceStart ==
    /\ rpc = [p \in Procs |-> "load"]
    /\ roverlay \in [Procs -> RaceOverlays]
    /\ rloaded = [p \in Procs |-> None]
    /\ rsavesAtLoad = [p \in Procs |-> 0]
    /\ rfile \in RaceFiles
    /\ rfile0 = rfile
    /\ rfile1 = rfile
    /\ rorder = <<>>

\* invocation p: read_existing_config(&config_path)?
RaceLoad(p) ==
    /\ rpc[p] = "load"
    /\ \E readFault \in BOOLEAN :
           LET r == read_existing_config(rfile, readFault)
           IN  IF r.ok
               THEN /\ rloaded' = [rloaded EXCEPT ![p] = r]
                    /\ rsavesAtLoad' = [rsavesAtLoad EXCEPT ![p] = Len(rorder)]
                    /\ rpc' = [rpc EXCEPT ![p] = "save"]
               ELSE /\ rpc' = [rpc EXCEPT ![p] = "failed"]
                    /\ UNCHANGED <<rloaded, rsavesAtLoad>>
    /\ UNCHANGED <<roverlay, rfile, rfile0, rfile1, rorder>>

\* mutant: the merge is made into the file as it is when it is written
RaceSave_Reloads(p) ==
    /\ rpc[p] = "save"
    /\ LET text == to_string_pretty(
                       final_config(read_existing_config(rfile, FALSE), roverlay[p]))
       IN  \E how \in {"ok", "create_fails", "write_fails"} :
               /\ rfile' \in FilesAfterWrite(rfile, text, how)
               /\ IF how = "ok"
                  THEN /\ rpc' = [rpc EXCEPT ![p] = "done"]
                       /\ rorder' = Append(rorder, p)
                       /\ rfile1' = IF rorder = <<>> THEN rfile' ELSE rfile1
                  ELSE /\ rpc' = [rpc EXCEPT ![p] = "failed"]
                       /\ UNCHANGED <<rorder, rfile1>>
    /\ UNCHANGED <<roverlay, rloaded, rsavesAtLoad, rfile0>>

\* invocation p: the merge into what it loaded, and write_config
RaceSave(p) ==
    /\ rpc[p] = "save"
    /\ LET text == to_string_pretty(final_config(rloaded[p], roverlay[p]))
       IN  \E how \in {"ok", "create_fails", "write_fails"} :
               /\ rfile' \in FilesAfterWrite(rfile, text, how)
               /\ IF how = "ok"
                  THEN /\ rpc' = [rpc EXCEPT ![p] = "done"]
                       /\ rorder' = Append(rorder, p)
                       /\ rfile1' = IF rorder = <<>> THEN rfile' ELSE rfile1
                  ELSE /\ rpc' = [rpc EXCEPT ![p] = "failed"]
                       /\ UNCHANGED <<rorder, rfile1>>
    /\ UNCHANGED <<roverlay, rloaded, rsavesAtLoad, rfile0>>

vars == <<mergeVars, runVars, inputVars, codecVars, raceVars>>

NextMerge ==
    \/ Merge /\ UNCHANGED <<runVars, inputVars, codecVars, raceVars>>
    \/ MergeAgain /\ UNCHANGED <<runVars, inputVars, codecVars, raceVars>>

InitMerge == MergeInputs /\ RunIdle /\ InputIdle /\ CodecIdle /\ RaceIdle

SpecMerge == InitMerge /\ [][NextMerge]_vars

NextInput ==
    \/ CheckFormat /\ UNCHANGED <<mergeVars, runVars, codecVars, raceVars>>
    \/ DecodeKey /\ UNCHANGED <<mergeVars, runVars, codecVars, raceVars>>
    \/ DecodeNonce /\ UNCHANGED <<mergeVars, runVars, codecVars, raceVars>>

InitInput == InputTextsInit /\ MergeIdle /\ RunIdle /\ CodecIdle /\ RaceIdle

SpecInput == InitInput /\ [][NextInput]_vars

NextCodec ==
    \/ Encrypt /\ UNCHANGED <<mergeVars, runVars, inputVars, raceVars>>
    \/ TamperBit /\ UNCHANGED <<mergeVars, runVars, inputVars, raceVars>>
    \/ DecryptSealed /\ UNCHANGED <<mergeVars, runVars, inputVars, raceVars>>

InitCodec == CodecInputs /\ MergeIdle /\ RunIdle /\ InputIdle /\ RaceIdle

SpecCodec == InitCodec /\ [][NextCodec]_vars

NextRace ==
    \/ \E p \in Procs : RaceLoad(p) /\ UNCHANGED <<mergeVars, runVars, inputVars, codecVars>>
    \/ \E p \in Procs : RaceSave(p) /\ UNCHANGED <<mergeVars, runVars, inputVars, codecVars>>

InitRace == RaceStart /\ MergeIdle /\ RunIdle /\ InputIdle /\ CodecIdle

SpecRace == InitRace /\ [][NextRace]_vars

Init == InitRun /\ MergeIdle /\ InputIdle /\ CodecIdle /\ RaceIdle

Next ==
    \/ GetSecretKey /\ UNCHANGED <<mergeVars, inputVars, codecVars, raceVars>>
    \/ PromptNonce /\ UNCHANGED <<mergeVars, inputVars, codecVars, raceVars>>
    \/ GetNonce /\ UNCHANGED <<mergeVars, inputVars, codecVars, raceVars>>
    \/ Decrypt /\ UNCHANGED <<mergeVars, inputVars, codecVars, raceVars>>
    \/ ParsePlaintext /\ UNCHANGED <<mergeVars, inputVars, codecVars, raceVars>>
    \/ EnsureConfigDir /\ UNCHANGED <<mergeVars, inputVars, codecVars, raceVars>>
    \/ ReadExisting /\ UNCHANGED <<mergeVars, inputVars, codecVars, raceVars>>
    \/ WriteConfig /\ UNCHANGED <<mergeVars, inputVars, codecVars, raceVars>>
    \/ CleanupAfterFailure /\ UNCHANGED <<mergeVars, inputVars, codecVars, raceVars>>
    \/ ReturnAfterFailure /\ UNCHANGED <<mergeVars, inputVars, codecVars, raceVars>>
    \/ CleanupAfterSuccess /\ UNCHANGED <<mergeVars, inputVars, codecVars, raceVars>>
    \/ ReturnAfterSuccess /\ UNCHANGED <<mergeVars, inputVars, codecVars, raceVars>>

Spec == Init /\ [][Next]_vars

(***************************************************************************)
(* SpecLive: a run of main() in which a well-formed key and a well-formed  *)
(* nonce are eventually entered and every call returns                     *)
(***************************************************************************)
\* a step of the run, the other specifications' variables left alone
RunStep(A) == A /\ UNCHANGED <<mergeVars, inputVars, codecVars, raceVars>>

\* the keys get_secret_key returns for the answers of the model
AcceptedKeys ==
    {decode_and_validate_key(t).v :
        t \in {u \in CredentialTexts(KEY_SIZE) :
                  validate_base64_format(u) /\ decode_and_validate_key(u).ok}}

\* the nonces get_nonce returns for the lines of the model
AcceptedNonces ==
    {decode_and_validate_nonce(t).v :
        t \in {u \in {trim(line) : line \in InputLines(NONCE_SIZE)} :
                  validate_base64_format(u) /\ decode_and_validate_nonce(u).ok}}

\* the iteration of get_secret_key in which the answer is accepted
KeySupplied ==
    /\ pc = "AwaitingKey"
    /\ key' \in AcceptedKeys
    /\ pc' = "PromptNonce"
    /\ attempts' = 0
    /\ UNCHANGED <<err, outcome, file, file0, dirExists, embedded, nonce, plaintext,
                   config_json, existingCfg, deletions, deletionResult, result>>

\* the iteration of get_nonce in which the line is accepted
NonceSupplied ==
    /\ pc = "AwaitingNonce"
    /\ nonce' \in AcceptedNonces
    /\ pc' = "Decrypting"
    /\ attempts' = 0
    /\ UNCHANGED <<err, outcome, file, file0, dirExists, embedded, key, plaintext,
                   config_json, existingCfg, deletions, deletionResult, result>>

\* the positions at which the run is inside a call other than the two prompts
CallPositions ==
    {"PromptNonce", "Decrypting", "ParsingPlaintext", "EnsureDir", "ReadExisting",
     "WriteConfig", "Persisted", "Failed", "PersistedCleanedUp", "FailedCleanedUp"}

\* a well-formed key, and then a well-formed nonce, is eventually entered
Fairness ==
    /\ WF_vars(RunStep(KeySupplied))
    /\ WF_vars(RunStep(NonceSupplied))

SpecLive == Init /\ [][Next]_vars /\ Fairness

(***************************************************************************)
(* Claims about the Tree Merger, checked under SpecMerge                   *)
(***************************************************************************)
RECURSIVE UnionAndPrecedence(_, _, _)
RECURSIVE OverlayReplaces(_, _, _)
RECURSIVE BaseOnlyKept(_, _, _)

\* r is the merge of mappings b and o as C1 describes it, at this node and below
UnionAndPrecedence(b, o, r) ==
    (IsObject(b) /\ IsObject(o)) =>
        /\ IsObject(r)
        /\ DOMAIN r.m = DOMAIN b.m \cup DOMAIN o.m
        /\ \A k \in DOMAIN o.m \ DOMAIN b.m : r.m[k] = o.m[k]
        /\ \A k \in DOMAIN o.m \cap DOMAIN b.m :
               /\ r.m[k] = deep_merge_json(b.m[k], o.m[k])
               /\ UnionAndPrecedence(b.m[k], o.m[k], r.m[k])

\* C1: for mappings base and overlay, the merged mapping has the union of both
\* key sets; a key of both holds the recursive merge of the two sub-documents,
\* a key of the overlay alone holds the overlay's sub-document.
C1_MergeUnionPrecedence ==
    mpc = "merged" => UnionAndPrecedence(base0, new, existing)

C1_Witness ==
    /\ mpc = "merged"
    /\ base0 = [m |-> [a |-> [m |-> [a |-> [s |-> 1], b |-> [s |-> 2]]]]]
    /\ new = [m |-> [a |-> [m |-> [a |-> [s |-> 2]]], b |-> [s |-> 1]]]
    /\ existing = [m |-> [a |-> [m |-> [a |-> [s |-> 2], b |-> [s |-> 2]]],
                          b |-> [s |-> 1]]]

\* at every node where b and o are not both mappings, r is o exactly
OverlayReplaces(b, o, r) ==
    IF IsObject(b) /\ IsObject(o)
    THEN /\ IsObject(r)
         /\ \A k \in DOMAIN b.m \cap DOMAIN o.m :
                /\ k \in DOMAIN r.m
                /\ OverlayReplaces(b.m[k], o.m[k], r.m[k])
    ELSE r = o

\* C2: wherever base and overlay are not both mappings the merged node equals
\* the overlay: sequences are not concatenated, a mapping is replaced wholesale.
C2_MismatchReplaced ==
    mpc = "merged" => OverlayReplaces(base0, new, existing)

C2_Witness ==
    /\ mpc = "merged"
    /\ base0 = [m |-> [a |-> [m |-> [b |-> [s |-> 1]]]]]
    /\ new = [m |-> [a |-> [q |-> <<[s |-> 2], [s |-> 1]>>]]]
    /\ existing = new

\* C3: merging the same overlay a second time changes nothing.
C3_MergeIdempotent ==
    mpc = "remerged" => existing = merged1

C3_Witness ==
    /\ mpc = "remerged"
    /\ IsObject(base0) /\ IsObject(new)
    /\ \E k \in DOMAIN base0.m \cap DOMAIN new.m :
           IsObject(base0.m[k]) /\ IsObject(new.m[k]) /\ base0.m[k] # new.m[k]
    /\ existing # base0 /\ existing # new

\* every key of b that o lacks maps in r to what it maps to in b, at this node
\* and at every node the recursion reaches
BaseOnlyKept(b, o, r) ==
    (IsObject(b) /\ IsObject(o)) =>
        /\ IsObject(r)
        /\ \A k \in DOMAIN b.m \ DOMAIN o.m :
               k \in DOMAIN r.m /\ r.m[k] = b.m[k]
        /\ \A k \in DOMAIN b.m \cap DOMAIN o.m :
               k \in DOMAIN r.m /\ BaseOnlyKept(b.m[k], o.m[k], r.m[k])

\* C4: a key present only in base keeps its sub-document, at every depth the
\* recursion reaches.
C4_BaseOnlyKeysUntouched ==
    mpc = "merged" => BaseOnlyKept(base0, new, existing)

C4_Witness ==
    /\ mpc = "merged"
    /\ base0 = [m |-> [a |-> [m |-> [a |-> [s |-> 1], b |-> [s |-> 2]]],
                       b |-> [q |-> <<[s |-> 1]>>]]]
    /\ new = [m |-> [a |-> [m |-> [a |-> [s |-> 2]]]]]
    /\ existing.m["b"] = [q |-> <<[s |-> 1]>>]
    /\ existing.m["a"].m["b"] = [s |-> 2]

\* C5 as claimed: merging the empty mapping leaves every base unchanged,
\* whether the base is a mapping, a sequence or a scalar.
C5_EmptyOverlayNoOpAnyBase ==
    (mpc = "merged" /\ new = EmptyMap) => existing = base0

\* C5 amended: merging the empty mapping leaves every base that is a mapping
\* unchanged; a base that is a sequence or a scalar is replaced by the empty
\* mapping.
C5_EmptyOverlay ==
    (mpc = "merged" /\ new = EmptyMap) =>
        existing = (IF IsObject(base0) THEN base0 ELSE EmptyMap)

C5_Witness ==
    /\ mpc = "merged"
    /\ new = EmptyMap
    /\ base0 = [m |-> [a |-> [m |-> [b |-> [s |-> 1]]], b |-> [q |-> <<>>]]]
    /\ existing = base0

(***************************************************************************)
(* Claims about the Config Store and main, checked under Spec              *)
(***************************************************************************)
\* whether the content of file f parses as a Document
ContentParses(f) == from_utf8(f.bytes).ok /\ from_str(from_utf8(f.bytes).text).ok

\* load(path) as 4.4 states it: the empty mapping for an absent or unparsable
\* file, the parsed Document otherwise
LoadedBase(f) ==
    IF f.exists /\ ContentParses(f) THEN from_str(from_utf8(f.bytes).text).v ELSE EmptyMap

\* C6: after a successful apply the file holds exactly merge(load(path), O),
\* load(path) being the empty mapping for an absent or unparsable file.
C6_ApplyIsLoadMergeSave ==
    outcome = "Persisted" =>
        /\ file.exists
        /\ from_utf8(file.bytes).ok
        /\ from_str(from_utf8(file.bytes).text) =
               [ok |-> TRUE, v |-> deep_merge_json(LoadedBase(file0), config_json)]

C6_Witness ==
    /\ outcome = "Persisted"
    /\ file0 = FileOf(Utf8(to_string_pretty(
                   [m |-> [a |-> [m |-> [a |-> [s |-> 1], b |-> [s |-> 2]]]]])))
    /\ config_json = [m |-> [a |-> [m |-> [a |-> [s |-> 2]]]]]
    /\ file = FileOf(Utf8(to_string_pretty(
                   [m |-> [a |-> [m |-> [a |-> [s |-> 2], b |-> [s |-> 2]]]]])))

\* C7 as claimed: loading a config file whose content does not parse never
\* fails; unless the read itself faults, the run goes on to merge and save.
C7_UnparsableLoadNeverFails ==
    [][(pc = "ReadExisting" /\ file.exists /\ ~ContentParses(file) /\ pc' = "Failed")
           => err'.detail = "read"]_vars

\* C8: in a run that reaches Failed, perform_self_deletion is invoked after the
\* failure is decided and before main returns the error.
C8_DeletionBetweenFailureAndReturn ==
    /\ (outcome = "Failed" /\ result # Running) => deletions >= 1
    /\ deletions >= 1 => outcome # "running"
    /\ (outcome = "Failed" /\ pc = "FailedCleanedUp") =>
           (deletions = 1 /\ result = Running)

C8_Witness ==
    /\ pc = "Exited"
    /\ outcome = "Failed"
    /\ err = Error("IoError", "write")
    /\ deletions = 1
    /\ result = Err(err)

\* C9: the error main returns after a failed pipeline is the pipeline's error,
\* whether the self-deletion succeeded or failed.
C9_OriginalErrorReturned ==
    (pc = "Exited" /\ outcome = "Failed") => result = Err(err)

C9_Witness ==
    /\ pc = "Exited"
    /\ outcome = "Failed"
    /\ err = Error("CryptoError", "aead::Error")
    /\ deletionResult = Err(Error("SelfDeletionError", "Failed to delete executable"))
    /\ result = Err(err)

\* C10 as claimed: when the pipeline reached Persisted, the run reports success
\* to the invoking environment even if the self-deletion then fails.
C10_DeletionFailureKeepsSuccess ==
    (pc = "Exited" /\ outcome = "Persisted") => ExitStatus(result) = "success"

(***************************************************************************)
(* The stages of a run (main.rs, run_application)                          *)
(***************************************************************************)
StageOrder ==
    <<"AwaitingCredentials", "Decrypting", "ParsingPlaintext", "Merging", "Persisted">>

\* stage t is the one that follows stage s
Follows(s, t) == \E i \in 1..(Len(StageOrder) - 1) : StageOrder[i] = s /\ StageOrder[i + 1] = t

\* C11: a step that changes the stage of the run moves it either to the next
\* stage of AwaitingCredentials, Decrypting, ParsingPlaintext, Merging, Persisted,
\* and then no error has occurred, or from a stage before Persisted to Failed;
\* from Persisted and from Failed no stage is entered (the process only exits).
C11_StagesInOrder ==
    [][Stage' # Stage =>
          \/ Follows(Stage, Stage') /\ err' = NoError
          \/ Stage \in {"AwaitingCredentials", "Decrypting", "ParsingPlaintext", "Merging"}
                /\ Stage' = "Failed"
          \/ Stage \in {"Persisted", "Failed"} /\ Stage' = "Exited"]_vars

\* a run that went through every stage
C11_Witness ==
    /\ Stage = "Persisted"
    /\ key = BuildKey
    /\ nonce = BuildNonce
    /\ existingCfg # None
    /\ file # file0

\* the error of a failed authentication
AuthenticationFailure == Error("CryptoError", "aead::Error")

\* C12: when the embedded ciphertext does not open with the key and nonce given,
\* the Decrypting step moves the run to Failed with the authentication error, and
\* from then on the run only cleans up and exits: no prompt, no decryption, no
\* parse, no merge and no write of the config file follows.
C12_AuthFailureTerminal ==
    [][/\ (pc = "Decrypting" /\ embedded # <<>>
             /\ ~Aes256GcmDecrypt(key, nonce, embedded).ok)
           => (pc' = "Failed" /\ err' = AuthenticationFailure)
       /\ err = AuthenticationFailure
           => /\ pc' \in {"FailedCleanedUp", "Exited"}
              /\ UNCHANGED <<attempts, key, nonce, plaintext, config_json, existingCfg,
                             file, dirExists, err, outcome>>]_vars

\* a run that ended after a wrong key, the config file as it was
C12_Witness ==
    /\ pc = "Exited"
    /\ err = AuthenticationFailure
    /\ key # BuildKey
    /\ embedded # <<>>
    /\ file = file0

\* C13: in AwaitingCredentials a step either stays in the same prompt loop, or
\* leaves the loop of the key with a key of KEY_SIZE bytes, or the loop of the nonce
\* with a nonce of NONCE_SIZE bytes, or fails with an I/O error; no validation
\* error (format, decoding, length) ever fails the run.
C13_ValidationErrorsReprompt ==
    [][Stage = "AwaitingCredentials" =>
          /\ pc' = "Failed" => err'.kind = "IoError"
          /\ (pc = "AwaitingKey" /\ pc' \notin {"AwaitingKey", "Failed"})
              => (pc' = "PromptNonce" /\ Len(key') = KEY_SIZE)
          /\ (pc = "AwaitingNonce" /\ pc' \notin {"AwaitingNonce", "Failed"})
              => (pc' = "Decrypting" /\ Len(nonce') = NONCE_SIZE)
          /\ pc' = pc => (key' = key /\ nonce' = nonce /\ err' = NoError)]_vars

\* the nonce is asked for again after MaxAttempts rejected answers
C13_Witness ==
    /\ pc = "AwaitingNonce"
    /\ attempts = MaxAttempts
    /\ Len(key) = KEY_SIZE
    /\ outcome = "running"

(***************************************************************************)
(* The validators of a credential text (crypto/mod.rs, input.rs)           *)
(***************************************************************************)
\* the result r of decoding a text and checking its length against size: the
\* bytes if the text decodes to exactly size bytes, the error kind carrying the
\* actual length and nothing else if it decodes to another length
DecodesAndChecks(t, r, size, kind) ==
    LET decoded == Base64Decode(t)
    IN  /\ r.ok <=> (decoded.ok /\ Len(decoded.v) = size)
        /\ r.ok => r = [ok |-> TRUE, v |-> decoded.v]
        /\ (decoded.ok /\ Len(decoded.v) # size)
            => r = Err(Error(kind, ToString(Len(decoded.v))))

\* C14: decode_and_validate_key and decode_and_validate_nonce return the decoded
\* bytes exactly when the text decodes to KEY_SIZE (NONCE_SIZE) bytes; a text that
\* decodes to any other number n of bytes gives the length error with actual = n,
\* which carries the length only.
C14_DecodeChecksLength ==
    /\ ipc = "keyDecoded" => DecodesAndChecks(itext, keyResult, KEY_SIZE, "InvalidKeyLength")
    /\ ipc = "nonceDecoded"
        => DecodesAndChecks(itext, nonceResult, NONCE_SIZE, "InvalidIvLength")

\* a text of 33 bytes is refused as a key with actual = 33
C14_Witness ==
    /\ ipc = "keyDecoded"
    /\ Base64Decode(itext).ok
    /\ keyResult = Err(Error("InvalidKeyLength", "33"))

\* C17: validate_base64_format accepts exactly the texts all of whose characters
\* are ASCII letters, ASCII digits, '+', '/' or '=' and that do not end with three
\* '='.
C17_FormatAcceptsAlphabet ==
    ipc = "formatted" =>
        (formatOk <=>
            /\ \A i \in 1..Len(itext) :
                   itext[i] \in AsciiLetters \cup AsciiDigits \cup {"+", "/", "="}
            /\ ~(Len(itext) >= 3 /\ \A i \in (Len(itext) - 2)..Len(itext) : itext[i] = "="))

\* an accepted text, ending with two '=', that the engine does not decode
C17_Witness ==
    /\ ipc = "formatted"
    /\ formatOk
    /\ Len(itext) >= 2
    /\ itext[Len(itext)] = "=" /\ itext[Len(itext) - 1] = "="
    /\ ~Base64Decode(itext).ok

(***************************************************************************)
(* encrypt_data and decrypt_data (crypto/mod.rs)                           *)
(***************************************************************************)
\* C15: decrypt_data of what encrypt_data returned for a plaintext, with the same
\* key and nonce, succeeds and returns exactly the plaintext.
C15_RoundTrip ==
    cpc = "opened" => copened = [ok |-> TRUE, v |-> cplain]

\* a plaintext of two bytes came back from a ciphertext that differs from it
C15_Witness ==
    /\ cpc = "opened"
    /\ copened.ok
    /\ Len(cplain) = 2
    /\ ckey # BuildKey
    /\ SubSeq(csealed, 1, Len(cplain)) # cplain

\* C16: decrypt_data of a ciphertext one bit of which was changed, in its body or
\* in its tag, with the key and nonce it was made with, fails with the
\* authentication error and returns no plaintext.
C16_TamperDetected ==
    cpc = "tamperedOpened" => copened = Err(AuthenticationFailure)

\* a bit of the body was changed (the tag is the one encrypt_data made)
C16_Witness ==
    /\ cpc = "tamperedOpened"
    /\ ~copened.ok
    /\ cplain # <<>>
    /\ csealed # encrypt_data(cplain, ckey, cnonce).v
    /\ SubSeq(csealed, Len(cplain) + 1, Len(csealed))
           = SubSeq(encrypt_data(cplain, ckey, cnonce).v, Len(cplain) + 1, Len(csealed))

(***************************************************************************)
(* Errors of the plaintext, the write of the config file, and two          *)
(* concurrent invocations                                                  *)
(***************************************************************************)
\* C18: when the decrypted plaintext is not valid UTF-8 or does not parse as a
\* Document, the run moves from ParsingPlaintext to Failed with an error whose
\* class is not the class of an authentication failure and which is not reported
\* to the user with the message of an authentication failure.
C18_ParseErrorDistinct ==
    [][(pc = "ParsingPlaintext" /\ pc' # "EnsureDir") =>
          /\ pc' = "Failed"
          /\ err'.kind # AuthenticationFailure.kind
          /\ user_message(err') # user_message(AuthenticationFailure)]_vars

\* C19: a step of write_config, whether it returns Ok or an IoError, leaves the
\* config file either as it was or holding the complete serialization of the
\* Document written.
C19_SaveNeverPartial ==
    [][pc = "WriteConfig" =>
          \/ file' = file
          \/ file' = FileOf(Utf8(to_string_pretty(final_config(existingCfg, config_json))))
      ]_vars

\* apply_config_update(o) on the file f, no I/O fault occurring
Applied(f, o) ==
    FileOf(Utf8(to_string_pretty(final_config(read_existing_config(f, FALSE), o))))

\* both invocations have written, and both had loaded before either wrote
BothLoadedThenBothSaved ==
    \A p \in Procs : rpc[p] = "done" /\ rsavesAtLoad[p] = 0

\* C20: when two invocations both load the config file before either writes it,
\* the file ends as the invocation that wrote last alone would have made it from
\* the initial file: the overlay of the invocation that wrote first is lost.
C20_LostUpdate ==
    BothLoadedThenBothSaved => rfile = Applied(rfile0, roverlay[rorder[2]])

\* the final file is neither sequential result, and it lacks a key of the overlay
\* that was written first
C20_Witness ==
    /\ BothLoadedThenBothSaved
    /\ rfile # Applied(Applied(rfile0, roverlay[1]), roverlay[2])
    /\ rfile # Applied(Applied(rfile0, roverlay[2]), roverlay[1])
    /\ \E k \in DOMAIN roverlay[rorder[1]].m :
           k \notin DOMAIN from_str(from_utf8(rfile.bytes).text).v.m

(***************************************************************************)
(* What a run leaves behind, and its self-deletion (main.rs)               *)
(***************************************************************************)
BeforeMerging == {"AwaitingCredentials", "Decrypting", "ParsingPlaintext"}

\* C21: while the run is in AwaitingCredentials, Decrypting or ParsingPlaintext
\* the config file is the one the run found, and no step taken there, the step
\* that fails the run included, changes the file or its directory; the steps
\* after a failure (cleanup and return) change neither.
C21_FailureBeforeMergingLeavesFile ==
    [][/\ Stage \in BeforeMerging
           => (file = file0 /\ file' = file0 /\ dirExists' = dirExists)
       /\ Stage = "Failed" => (file' = file /\ dirExists' = dirExists)]_vars

\* a run that failed in ParsingPlaintext has returned: no file, no directory
C21_Witness ==
    /\ pc = "Exited"
    /\ err.kind = "JsonError"
    /\ file = AbsentFile
    /\ file0 = AbsentFile
    /\ ~dirExists

\* C22: perform_self_deletion is not called while the run is in a stage of the
\* pipeline; once called, the outcome is decided and, when the outcome is
\* Persisted, the config file holds the merged Document; a run that has returned
\* has called it exactly once.
C22_DeletionOnceAfterOutcome ==
    /\ pc \in {"AwaitingKey", "PromptNonce", "AwaitingNonce", "Decrypting",
                "ParsingPlaintext", "EnsureDir", "ReadExisting", "WriteConfig"}
        => deletions = 0
    /\ deletions > 0 => outcome \in {"Persisted", "Failed"}
    /\ (deletions > 0 /\ outcome = "Persisted")
        => file = FileOf(Utf8(to_string_pretty(final_config(existingCfg, config_json))))
    /\ pc = "Exited" => deletions = 1

\* a run that wrote the config file has returned after one deletion
C22_Witness ==
    /\ pc = "Exited"
    /\ outcome = "Persisted"
    /\ deletions = 1
    /\ file # file0

(***************************************************************************)
(* The same overlay applied twice (config/file_ops.rs, config/merger.rs)   *)
(***************************************************************************)
\* both invocations have written, the second having loaded the file only after
\* the first had written it
OneAfterTheOther ==
    /\ \A p \in Procs : rpc[p] = "done"
    /\ rsavesAtLoad[rorder[1]] = 0
    /\ rsavesAtLoad[rorder[2]] = 1

\* C23: when two invocations apply the same overlay one after the other and both
\* succeed, the config file after the second holds a Document, and it is the
\* Document the file held after the first, whatever the file was before them.
C23_SameOverlayTwice ==
    (OneAfterTheOther /\ roverlay[1] = roverlay[2]) =>
        /\ ContentParses(rfile1)
        /\ ContentParses(rfile)
        /\ from_str(from_utf8(rfile.bytes).text).v = from_str(from_utf8(rfile1.bytes).text).v

\* the overlay was merged into a parsable file by the first, and the second
\* changed nothing
C23_Witness ==
    /\ OneAfterTheOther
    /\ roverlay[1] = roverlay[2]
    /\ ContentParses(rfile0)
    /\ rfile1 # rfile0
    /\ rfile = rfile1

(***************************************************************************)
(* Termination of a run (input.rs, main.rs)                                *)
(***************************************************************************)
\* C24: however many inputs have been rejected, the run is still in
\* AwaitingCredentials with no outcome; and when a well-formed key and then a
\* well-formed nonce are eventually entered (the fairness of SpecLive) and no
\* call stays unreturned forever, the run eventually has an outcome, Persisted
\* or Failed, and main has returned.
C24_RunTerminates ==
    /\ [](attempts > 0 => (Stage = "AwaitingCredentials" /\ outcome = "running"))
    /\ (\A c \in CallPositions : ~<>[](pc = c))
          => <>(pc = "Exited" /\ outcome \in {"Persisted", "Failed"} /\ result # Running)

\* a run has returned after writing the config file, decrypted with a nonce
\* that was entered and accepted
C24_Witness ==
    /\ pc = "Exited"
    /\ outcome = "Persisted"
    /\ result = Ok
    /\ nonce \in AcceptedNonces

====
